---- MODULE Spec2Model ----
(***************************************************************************)
(* Wave Function Collapse on a hexagonal grid (src/model.ts, class Model). *)
(* The state is the Model instance's fields plus the position of the       *)
(* running public operation (generate / iterate / isGenerationComplete).   *)
(* Reals are modelled as scaled integers: entropies in units of 1e-6, and  *)
(* rng() as k / RngLevels for k in 0..RngLevels-1.                         *)
(***************************************************************************)
EXTENDS Integers, Sequences, FiniteSets, TLC

\* ---------------------------------------------------------------- bounds
MaxWave == 8         \* the wave has FMX * FMY * T <= MaxWave entries
MaxT == 3            \* tile counts 1..MaxT
RngLevels == 2       \* rng() returns k / RngLevels, k in 0..RngLevels-1
MaxIterations == 2   \* iterate(n) is called with n in 0..MaxIterations

\* ------------------------------------------------------ program constants
MinStart == 1000           \* let min = 1000
NoiseDivisor == 1000000    \* noise = 0.000001 * rng()
NaN == -1                  \* stand-in for the NaN entropy of an emptied cell
Undefined == -2            \* stand-in for a hole of a `new Array(n)`

VARIABLES
  \* configuration, fixed at construction
  FMX, FMY, T, weights, propagator, onBoundary,
  \* fields mutated during generation
  initiliazedField, generationComplete,
  wave, compatible, sumsOfOnes, sumsOfWeights, sumsOfWeightLogWeights,
  entropies, observed, stack,
  \* position of the running public operation
  pc,          \* "idle" | "observe" | "propagate"
  call,        \* "none" | "generate" | "iterate" | "isGenerationComplete"
  iterations,  \* the argument of the running / last iterate() (0 otherwise)
  iter,        \* loop counter i of the running / last iterate(n), n > 0; it is
               \* not counted when n = 0, where the loop never reads it
  ret,         \* value returned by the last finished call (FALSE while one runs)
  \* history of the current attempt (since the last clear())
  terminal,    \* "none" | "success" | "contradiction"
  \* a second instance of the same configuration: constructed afresh at every
  \* generate() of the first one and fed the same rng values
  twin,
  \* a third instance of the same configuration, in the behaviours of SpecSplit
  \* only: while iterate(a) and then iterate(b) run on a fresh first instance,
  \* one call iterate(a + b) runs on this one, fed the same rng values
  whole

config == <<FMX, FMY, T, weights, propagator, onBoundary>>
fields == <<initiliazedField, generationComplete, wave, compatible, sumsOfOnes,
            sumsOfWeights, sumsOfWeightLogWeights, entropies, observed, stack>>
control == <<pc, call, iterations, iter, ret>>
vars == <<config, fields, control, terminal, twin, whole>>

\* ------------------------------------------------------------ tileset
FMXxFMY == FMX * FMY
Cells == 0 .. (FMXxFMY - 1)
Tiles == 0 .. (T - 1)
Dirs == 0 .. 5

DX == <<-1, -1, 0, 1, 1, 0>>
DY == <<0, 1, 1, 1, 0, -1>>
opposite == <<3, 4, 5, 0, 1, 2>>

\* Math.log, in units of 1e-6, on the integers the model's weight sums reach
LogTable == <<0, 693147, 1098612, 1386294, 1609438, 1791759, 1945910, 2079442,
              2197225, 2302585, 2397895, 2484907, 2564949, 2639057, 2708050,
              2772589>>
Log(n) == LogTable[n]

\* .length of an array held as a function on 0 .. n-1
length(a) == Cardinality(DOMAIN a)

RECURSIVE SumTo(_, _)
SumTo(f, n) == IF n = 0 THEN 0 ELSE f[n - 1] + SumTo(f, n - 1)

weightLogWeights == [t \in Tiles |-> weights[t] * Log(weights[t])]
sumOfWeights == SumTo(weights, T)
sumOfWeightLogWeights == SumTo(weightLogWeights, T)

\* Math.log(sum) - sumsOfWeightLogWeights / sum; log(0) - x/0 is NaN, and so is
\* the log of a negative sum
Entropy(sum, slw) == IF sum <= 0 THEN NaN ELSE Log(sum) - (slw \div sum)
startingEntropy == Entropy(sumOfWeights, sumOfWeightLogWeights)

\* the instance's mutable fields as one record, so that the operations are
\* operators from fields to fields
Fields == [initiliazedField |-> initiliazedField,
           generationComplete |-> generationComplete,
           wave |-> wave, compatible |-> compatible, sumsOfOnes |-> sumsOfOnes,
           sumsOfWeights |-> sumsOfWeights,
           sumsOfWeightLogWeights |-> sumsOfWeightLogWeights,
           entropies |-> entropies, observed |-> observed, stack |-> stack]

stackSize == Len(stack)

\* ------------------------------------------------------------ initialize
initialize(m) ==
  [m EXCEPT !.wave = [i \in Cells |-> [t \in Tiles |-> Undefined]],
            !.compatible = [i \in Cells |-> [t \in Tiles |-> [d \in 0 .. 3 |-> 0]]],
            !.sumsOfOnes = [i \in Cells |-> Undefined],
            !.sumsOfWeights = [i \in Cells |-> Undefined],
            !.sumsOfWeightLogWeights = [i \in Cells |-> Undefined],
            !.entropies = [i \in Cells |-> Undefined],
            !.stack = <<>>]

\* ----------------------------------------------------------------- clear
\* mutant: clear() that zeroes the entropies instead of resetting them
clearZeroEntropies(m) ==
  [m EXCEPT !.wave = [i \in Cells |-> [t \in Tiles |-> TRUE]],
            !.compatible = [i \in Cells |-> [t \in Tiles |-> [d \in Dirs |->
                              Len(propagator[opposite[d + 1]][t])]]],
            !.sumsOfOnes = [i \in Cells |-> length(weights)],
            !.sumsOfWeights = [i \in Cells |-> sumOfWeights],
            !.sumsOfWeightLogWeights = [i \in Cells |-> sumOfWeightLogWeights],
            !.entropies = [i \in Cells |-> 0],
            !.initiliazedField = TRUE,
            !.generationComplete = FALSE]

\* mutant: clear() that leaves generationComplete as it was
clearKeepsComplete(m) ==
  [m EXCEPT !.wave = [i \in Cells |-> [t \in Tiles |-> TRUE]],
            !.compatible = [i \in Cells |-> [t \in Tiles |-> [d \in Dirs |->
                              Len(propagator[opposite[d + 1]][t])]]],
            !.sumsOfOnes = [i \in Cells |-> length(weights)],
            !.sumsOfWeights = [i \in Cells |-> sumOfWeights],
            !.sumsOfWeightLogWeights = [i \in Cells |-> sumOfWeightLogWeights],
            !.entropies = [i \in Cells |-> startingEntropy],
            !.initiliazedField = TRUE]

clear(m) ==
  [m EXCEPT !.wave = [i \in Cells |-> [t \in Tiles |-> TRUE]],
            !.compatible = [i \in Cells |-> [t \in Tiles |-> [d \in Dirs |->
                              Len(propagator[opposite[d + 1]][t])]]],
            !.sumsOfOnes = [i \in Cells |-> length(weights)],
            !.sumsOfWeights = [i \in Cells |-> sumOfWeights],
            !.sumsOfWeightLogWeights = [i \in Cells |-> sumOfWeightLogWeights],
            !.entropies = [i \in Cells |-> startingEntropy],
            !.initiliazedField = TRUE,
            !.generationComplete = FALSE]

\* ------------------------------------------------------------------- ban
\* mutant: ban() that forgets sumsOfOnes[i] -= 1
banKeepsCount(m, i, t) ==
  LET sum == m.sumsOfWeights[i] - weights[t]
      slw == m.sumsOfWeightLogWeights[i] - weightLogWeights[t]
  IN [m EXCEPT !.compatible[i][t] = [d \in Dirs |-> 0],
               !.wave[i][t] = FALSE,
               !.stack = Append(@, <<i, t>>),
               !.sumsOfWeights[i] = sum,
               !.sumsOfWeightLogWeights[i] = slw,
               !.entropies[i] = Entropy(sum, slw)]

ban(m, i, t) ==
  LET sum == m.sumsOfWeights[i] - weights[t]
      slw == m.sumsOfWeightLogWeights[i] - weightLogWeights[t]
  IN [m EXCEPT !.compatible[i][t] = [d \in Dirs |-> 0],
               !.wave[i][t] = FALSE,
               !.stack = Append(@, <<i, t>>),
               !.sumsOfOnes[i] = @ - 1,
               !.sumsOfWeights[i] = sum,
               !.sumsOfWeightLogWeights[i] = slw,
               !.entropies[i] = Entropy(sum, slw)]

\* --------------------------------------------------------------- observe
\* the weighted-sampling collaborator: the index whose cumulative weight
\* interval holds r * sum, for r = k / RngLevels
RECURSIVE randomIndiceFrom(_, _, _, _)
randomIndiceFrom(distribution, k, i, acc) ==
  IF i >= T - 1 THEN i
  ELSE IF k * SumTo(distribution, T) < RngLevels * (acc + distribution[i]) THEN i
  ELSE randomIndiceFrom(distribution, k, i + 1, acc + distribution[i])

randomIndice(distribution, k) == randomIndiceFrom(distribution, k, 0, 0)

\* A perturbed entropy entropy + 1e-6 * rng() is the pair <<entropy, k>> (entropy
\* in units of 1e-6, rng() = k / RngLevels), ordered as the sum is.
\* entropy <= min; false when the entropy is NaN
entropyAtMost(entropy, min) == entropy # NaN /\ entropy <= min[1]
\* mutant: the noises compared without the entropies
perturbedBelowNoiseOnly(entropy, k, min) ==
  min[1] = MinStart * NoiseDivisor \/ k < min[2]

\* entropy + noise < min
perturbedBelow(entropy, k, min) ==
  entropy < min[1] \/ (entropy = min[1] /\ k < min[2])

\* mutant: the scan without `if (amount === 0) return false`
RECURSIVE observeScanIgnoresEmpty(_, _, _, _, _)
observeScanIgnoresEmpty(m, noise, i, min, argmin) ==
  IF i >= FMXxFMY THEN [contradiction |-> FALSE, argmin |-> argmin]
  ELSE IF onBoundary[<<i % FMX, i \div FMX>>]
    THEN observeScanIgnoresEmpty(m, noise, i + 1, min, argmin)
  ELSE IF /\ m.sumsOfOnes[i] > 1
          /\ entropyAtMost(m.entropies[i], min)
          /\ perturbedBelow(m.entropies[i], noise[i], min)
    THEN observeScanIgnoresEmpty(m, noise, i + 1, <<m.entropies[i], noise[i]>>, i)
  ELSE observeScanIgnoresEmpty(m, noise, i + 1, min, argmin)

\* mutant: the scan with amount >= 1 for amount > 1
RECURSIVE observeScanAtLeastOne(_, _, _, _, _)
observeScanAtLeastOne(m, noise, i, min, argmin) ==
  IF i >= FMXxFMY THEN [contradiction |-> FALSE, argmin |-> argmin]
  ELSE IF onBoundary[<<i % FMX, i \div FMX>>]
    THEN observeScanAtLeastOne(m, noise, i + 1, min, argmin)
  ELSE IF m.sumsOfOnes[i] = 0 THEN [contradiction |-> TRUE, argmin |-> argmin]
  ELSE IF /\ m.sumsOfOnes[i] >= 1
          /\ entropyAtMost(m.entropies[i], min)
          /\ perturbedBelow(m.entropies[i], noise[i], min)
    THEN observeScanAtLeastOne(m, noise, i + 1, <<m.entropies[i], noise[i]>>, i)
  ELSE observeScanAtLeastOne(m, noise, i + 1, min, argmin)

\* the scan of observe(); noise[i] is the value rng() returns when cell i draws
RECURSIVE observeScan(_, _, _, _, _)
observeScan(m, noise, i, min, argmin) ==
  IF i >= FMXxFMY THEN [contradiction |-> FALSE, argmin |-> argmin]
  ELSE IF onBoundary[<<i % FMX, i \div FMX>>]
    THEN observeScan(m, noise, i + 1, min, argmin)
  ELSE IF m.sumsOfOnes[i] = 0 THEN [contradiction |-> TRUE, argmin |-> argmin]
  ELSE IF /\ m.sumsOfOnes[i] > 1
          /\ entropyAtMost(m.entropies[i], min)
          /\ perturbedBelow(m.entropies[i], noise[i], min)
    THEN observeScan(m, noise, i + 1, <<m.entropies[i], noise[i]>>, i)
  ELSE observeScan(m, noise, i + 1, min, argmin)

\* mutant: the first tile, whether the wave row holds it or not
firstTile(w, t) == IF t >= T THEN Undefined ELSE t

\* first true tile of a wave row, a hole when there is none
RECURSIVE firstTrue(_, _)
firstTrue(w, t) ==
  IF t >= T THEN Undefined ELSE IF w[t] THEN t ELSE firstTrue(w, t + 1)

\* mutant: the ban loop of observe() with `t !== r` for `w[t] !== (t === r)`
RECURSIVE collapseBansAll(_, _, _, _)
collapseBansAll(m, argmin, r, t) ==
  IF t >= T THEN m
  ELSE IF t # r
    THEN collapseBansAll(ban(m, argmin, t), argmin, r, t + 1)
  ELSE collapseBansAll(m, argmin, r, t + 1)

\* the ban loop of observe(): ban every tile of argmin but r
RECURSIVE collapse(_, _, _, _)
collapse(m, argmin, r, t) ==
  IF t >= T THEN m
  ELSE IF m.wave[argmin][t] # (t = r)
    THEN collapse(ban(m, argmin, t), argmin, r, t + 1)
  ELSE collapse(m, argmin, r, t + 1)

\* result is "false" | "true" | "null"; rng = [noise |-> ..., pick |-> k]
observe(m, rng) ==
  LET scan == observeScan(m, rng.noise, 0, <<MinStart * NoiseDivisor, 0>>, -1)
      argmin == scan.argmin
      distribution == [t \in Tiles |-> IF m.wave[argmin][t] THEN weights[t] ELSE 0]
      r == randomIndice(distribution, rng.pick)
  IN IF scan.contradiction THEN [result |-> "false", m |-> m]
     ELSE IF argmin = -1
       THEN [result |-> "true",
             m |-> [m EXCEPT !.observed = [i \in Cells |-> firstTrue(m.wave[i], 0)]]]
     ELSE [result |-> "null", m |-> collapse(m, argmin, r, 0)]

\* ------------------------------------------------------------- propagate
\* the (dx, dy) of direction d from a cell of row y1
offset(d, y1) ==
  IF y1 % 2 = 0
    THEN IF d = 1 THEN <<1, 0>>
         ELSE IF d = 4 THEN <<1, 1>>
         ELSE <<DX[d + 1], DY[d + 1]>>
    ELSE IF d = 1 THEN <<0, -1>>
         ELSE IF d = 4 THEN <<0, 1>>
         ELSE <<DX[d + 1], DY[d + 1]>>

wrapX(x2) == IF x2 < 0 THEN x2 + FMX ELSE IF x2 >= FMX THEN x2 - FMX ELSE x2
wrapY(y2) == IF y2 < 0 THEN y2 + FMY ELSE IF y2 >= FMY THEN y2 - FMY ELSE y2

\* mutant: the inner loop with comp[d] <= 0 for comp[d] === 0
RECURSIVE propagateListAtMostZero(_, _, _, _, _)
propagateListAtMostZero(m, i2, d, p, l) ==
  IF l > Len(p) THEN m
  ELSE LET t2 == p[l]
           m1 == [m EXCEPT !.compatible[i2][t2][d] = @ - 1]
       IN propagateListAtMostZero(
            IF m1.compatible[i2][t2][d] <= 0 THEN ban(m1, i2, t2) ELSE m1,
            i2, d, p, l + 1)

\* the inner loop over p = propagator[d][e1[1]]
RECURSIVE propagateList(_, _, _, _, _)
propagateList(m, i2, d, p, l) ==
  IF l > Len(p) THEN m
  ELSE LET t2 == p[l]
           m1 == [m EXCEPT !.compatible[i2][t2][d] = @ - 1]
       IN propagateList(IF m1.compatible[i2][t2][d] = 0 THEN ban(m1, i2, t2) ELSE m1,
                        i2, d, p, l + 1)

\* the loop over the six directions for the popped entry e1
RECURSIVE propagateDirs(_, _, _)
propagateDirs(m, e1, d) ==
  IF d >= 6 THEN m
  ELSE LET i1 == e1[1]
           x1 == i1 % FMX
           y1 == i1 \div FMX
           x2 == x1 + offset(d, y1)[1]
           y2 == y1 + offset(d, y1)[2]
           i2 == wrapX(x2) + wrapY(y2) * FMX
       IN IF onBoundary[<<x2, y2>>] THEN propagateDirs(m, e1, d + 1)
          ELSE propagateDirs(propagateList(m, i2, d, propagator[d][e1[2]], 1),
                             e1, d + 1)

\* mutant: the while loop taking the oldest entry instead of the newest
propagateStepOldestFirst(m) ==
  propagateDirs([m EXCEPT !.stack = Tail(@)], m.stack[1], 0)

\* one iteration of the while loop of propagate(): pop, then the six directions
propagateStep(m) ==
  propagateDirs([m EXCEPT !.stack = SubSeq(@, 1, Len(@) - 1)],
                m.stack[Len(m.stack)], 0)

\* ------------------------------------------------------- configurations
Grids(n) == {g \in (1 .. MaxWave) \X (1 .. MaxWave) : g[1] * g[2] * n <= MaxWave}

Coords(fx, fy) == (-1 .. fx) \X (-1 .. fy)
InRange(c, fx, fy) == c[1] >= 0 /\ c[1] < fx /\ c[2] >= 0 /\ c[2] < fy

\* boundary predicates: never (toroidal), outside the grid, column 0, both
BoundaryPredicates(fx, fy) ==
  { [c \in Coords(fx, fy) |-> FALSE],
    [c \in Coords(fx, fy) |-> ~InRange(c, fx, fy)],
    [c \in Coords(fx, fy) |-> c[1] = 0],
    [c \in Coords(fx, fy) |-> c[1] = 0 \/ ~InRange(c, fx, fy)] }

AllTiles(n) == [k \in 1 .. n |-> k - 1]

\* adjacency tables: nothing allowed, everything allowed, same tile only, tile 0
\* beside tile 0 only, successor in directions 0..2 and predecessor in 3..5,
\* and a non-reciprocal table (every tile lists tile 0)
Propagators(n) ==
  { [d \in Dirs |-> [t \in 0 .. n - 1 |-> <<>>]],
    [d \in Dirs |-> [t \in 0 .. n - 1 |-> AllTiles(n)]],
    [d \in Dirs |-> [t \in 0 .. n - 1 |-> <<t>>]],
    [d \in Dirs |-> [t \in 0 .. n - 1 |-> IF t = 0 THEN <<0>> ELSE <<>>]],
    [d \in Dirs |-> [t \in 0 .. n - 1 |->
        IF d < 3 THEN <<(t + 1) % n>> ELSE <<(t + n - 1) % n>>]],
    [d \in Dirs |-> [t \in 0 .. n - 1 |-> <<0>>]] }

WeightLists(n) == { [t \in 0 .. n - 1 |-> 1], [t \in 0 .. n - 1 |-> t + 1] }

\* the values rng() may return during one observe(): one per cell that can draw
\* a noise (a cell with more than one possible tile), one for the tile choice
Rngs == [noise : {f \in [Cells -> 0 .. RngLevels - 1] :
                    \A i \in Cells : sumsOfOnes[i] <= 1 => f[i] = 0},
         pick : 0 .. RngLevels - 1]

\* --------------------------------------------------------------- actions
Install(m) ==
  /\ initiliazedField' = m.initiliazedField
  /\ generationComplete' = m.generationComplete
  /\ wave' = m.wave
  /\ compatible' = m.compatible
  /\ sumsOfOnes' = m.sumsOfOnes
  /\ sumsOfWeights' = m.sumsOfWeights
  /\ sumsOfWeightLogWeights' = m.sumsOfWeightLogWeights
  /\ entropies' = m.entropies
  /\ observed' = m.observed
  /\ stack' = m.stack

\* the fields as the constructor leaves them: nothing is allocated
Constructed ==
  [initiliazedField |-> FALSE, generationComplete |-> FALSE, wave |-> <<>>,
   compatible |-> <<>>, sumsOfOnes |-> <<>>, sumsOfWeights |-> <<>>,
   sumsOfWeightLogWeights |-> <<>>, entropies |-> <<>>, observed |-> <<>>,
   stack |-> <<>>]

\* the twin instance while no generate() runs on it
TwinIdle == [live |-> FALSE, m |-> Constructed, result |-> "null"]

\* the third instance while no iterate(a + b) runs on it; compared is TRUE in
\* the behaviours that run it
WholeIdle ==
  [compared |-> FALSE, live |-> FALSE, m |-> Constructed, pc |-> "idle",
   iterations |-> 0, iter |-> 0, ret |-> FALSE, first |-> 0, calls |-> 0]

\* the third instance when a call other than iterate(a), iterate(b) is made
WholeOff == [WholeIdle EXCEPT !.compared = whole.compared]

\* the constructor: a subclass has set the configuration
Init ==
  /\ T \in 1 .. MaxT
  /\ \E g \in Grids(T) : FMX = g[1] /\ FMY = g[2]
  /\ weights \in WeightLists(T)
  /\ propagator \in Propagators(T)
  /\ onBoundary \in BoundaryPredicates(FMX, FMY)
  /\ initiliazedField = Constructed.initiliazedField
  /\ generationComplete = Constructed.generationComplete
  /\ wave = Constructed.wave
  /\ compatible = Constructed.compatible
  /\ sumsOfOnes = Constructed.sumsOfOnes
  /\ sumsOfWeights = Constructed.sumsOfWeights
  /\ sumsOfWeightLogWeights = Constructed.sumsOfWeightLogWeights
  /\ entropies = Constructed.entropies
  /\ observed = Constructed.observed
  /\ stack = Constructed.stack
  /\ pc = "idle"
  /\ call = "none"
  /\ iterations = 0
  /\ iter = 0
  /\ ret = FALSE
  /\ terminal = "none"
  /\ twin = TwinIdle
  /\ whole = WholeIdle

\* if (!this.wave.length) this.initialize()
allocated(m) == IF length(m.wave) = 0 THEN initialize(m) ELSE m

\* mutant: generate() that clears only an instance never cleared, as iterate()
generateKeepsState ==
  /\ pc = "idle"
  /\ LET m == allocated(Fields)
     IN Install(IF ~m.initiliazedField THEN clear(m) ELSE m)
  /\ pc' = "observe"
  /\ call' = "generate"
  /\ terminal' = IF initiliazedField THEN terminal ELSE "none"
  /\ ret' = FALSE
  /\ iterations' = 0
  /\ iter' = 0
  /\ twin' = [live |-> TRUE, m |-> clear(allocated(Constructed)), result |-> "null"]
  /\ whole' = WholeOff
  /\ UNCHANGED config

\* generate(): initialize if needed, clear, enter the loop
generate ==
  /\ pc = "idle"
  /\ Install(clear(allocated(Fields)))
  /\ pc' = "observe"
  /\ call' = "generate"
  /\ terminal' = "none"
  /\ ret' = FALSE
  /\ iterations' = 0
  /\ iter' = 0
  /\ twin' = [live |-> TRUE, m |-> clear(allocated(Constructed)), result |-> "null"]
  /\ whole' = WholeOff
  /\ UNCHANGED config

\* the third instance when iterate(n) is called on the first: on a fresh first
\* instance, n >= 1, it is constructed and its iterate(a + b) begins (allocate,
\* clear, enter the loop) with a = n; at the next call, n >= 1, b = n fixes its
\* budget a + b, which its loop had no need of so far (i < a < a + b); any
\* other call ends the comparison
wholeAtCall(n) ==
  IF whole.compared /\ n >= 1 /\ Fields = Constructed
    THEN [compared |-> TRUE, live |-> TRUE, m |-> clear(allocated(Constructed)),
          pc |-> "observe", iterations |-> 0, iter |-> 0, ret |-> FALSE,
          first |-> n, calls |-> 1]
  ELSE IF n >= 1 /\ whole.live /\ whole.calls = 1
    THEN [whole EXCEPT !.calls = 2, !.iterations = whole.first + n]
  ELSE WholeOff

\* mutant: iterate(n) that clears on every call, as generate()
iterateAlwaysClears(n) ==
  /\ pc = "idle"
  /\ Install(clear(allocated(Fields)))
  /\ terminal' = "none"
  /\ call' = "iterate"
  /\ iterations' = n
  /\ iter' = 0
  /\ IF 0 < n \/ n = 0
       THEN pc' = "observe" /\ ret' = FALSE
       ELSE pc' = "idle" /\ ret' = TRUE
  /\ twin' = TwinIdle
  /\ whole' = wholeAtCall(n)
  /\ UNCHANGED config

\* iterate(n): initialize if needed, clear if never cleared, enter the loop
iterate(n) ==
  /\ pc = "idle"
  /\ LET m == allocated(Fields)
     IN IF ~m.initiliazedField
          THEN Install(clear(m)) /\ terminal' = "none"
          ELSE Install(m) /\ terminal' = terminal
  /\ call' = "iterate"
  /\ iterations' = n
  /\ iter' = 0
  /\ IF 0 < n \/ n = 0
       THEN pc' = "observe" /\ ret' = FALSE
       ELSE pc' = "idle" /\ ret' = TRUE
  /\ twin' = TwinIdle
  /\ whole' = wholeAtCall(n)
  /\ UNCHANGED config

\* observe() and the terminal branch of singleIteration()
singleIterationObserve(m, rng) ==
  LET o == observe(m, rng)
  IN IF o.result # "null"
       THEN [o EXCEPT !.m.generationComplete = (o.result = "true")]
       ELSE o

\* the third instance takes the step the first takes, on the same rng values:
\* a terminal result returns from its iterate(a + b)
wholeObserve(rng) ==
  IF whole.live /\ whole.pc = "observe"
    THEN LET o == singleIterationObserve(whole.m, rng)
         IN [whole EXCEPT !.m = o.m,
                          !.pc = IF o.result # "null" THEN "idle" ELSE "propagate",
                          !.ret = (o.result = "true")]
    ELSE whole

\* singleIteration() up to its call of propagate(): observe, and on a terminal
\* result record it and return it from the running generate() / iterate()
singleIteration(rng) ==
  /\ pc = "observe"
  /\ twin' = IF twin.live
              THEN LET o2 == singleIterationObserve(twin.m, rng)
                   IN [twin EXCEPT !.m = o2.m, !.result = o2.result]
              ELSE twin
  /\ LET o == singleIterationObserve(Fields, rng)
     IN /\ Install(o.m)
        /\ IF o.result # "null"
             THEN /\ ret' = (o.result = "true")
                  /\ pc' = "idle"
                  /\ terminal' = IF o.result = "true" THEN "success"
                                                      ELSE "contradiction"
             ELSE /\ ret' = ret
                  /\ pc' = "propagate"
                  /\ terminal' = terminal
  /\ whole' = wholeObserve(rng)
  /\ UNCHANGED <<config, call, iterations, iter>>

\* the third instance pops when the first does
wholePop ==
  IF whole.live /\ whole.pc = "propagate" /\ Len(whole.m.stack) > 0
    THEN [whole EXCEPT !.m = propagateStep(whole.m)]
    ELSE whole

\* one iteration of the while loop of propagate()
propagate ==
  /\ pc = "propagate"
  /\ stackSize > 0
  /\ Install(propagateStep(Fields))
  /\ twin' = IF twin.live /\ Len(twin.m.stack) > 0
              THEN [twin EXCEPT !.m = propagateStep(twin.m)]
              ELSE twin
  /\ whole' = wholePop
  /\ UNCHANGED <<config, control, terminal>>

\* the third instance's propagate() returns and the loop of its iterate(a + b)
\* goes on (i + 1 < a + b, which holds while b is not named yet) or returns true
wholeLoop ==
  IF whole.live /\ whole.pc = "propagate" /\ Len(whole.m.stack) = 0
    THEN IF whole.calls = 1 \/ whole.iter + 1 < whole.iterations
           THEN [whole EXCEPT !.iter = @ + 1, !.pc = "observe"]
           ELSE [whole EXCEPT !.iter = @ + 1, !.pc = "idle", !.ret = TRUE]
    ELSE whole

\* mutant: the loop of iterate() with i <= iterations for i < iterations
loopOffByOne ==
  /\ pc = "propagate"
  /\ stackSize = 0
  /\ IF call = "generate"
       THEN pc' = "observe" /\ UNCHANGED <<iter, ret>>
       ELSE /\ iter' = IF iterations = 0 THEN iter ELSE iter + 1
            /\ IF iter + 1 <= iterations \/ iterations = 0
                 THEN pc' = "observe" /\ ret' = ret
                 ELSE pc' = "idle" /\ ret' = TRUE
  /\ whole' = wholeLoop
  /\ UNCHANGED <<config, fields, call, iterations, terminal, twin>>

\* propagate() returns, singleIteration() returns null, and the loop of the
\* running call goes on or (iterate, budget spent) returns true
loop ==
  /\ pc = "propagate"
  /\ stackSize = 0
  /\ IF call = "generate"
       THEN pc' = "observe" /\ UNCHANGED <<iter, ret>>
       ELSE /\ iter' = IF iterations = 0 THEN iter ELSE iter + 1
            /\ IF iter + 1 < iterations \/ iterations = 0
                 THEN pc' = "observe" /\ ret' = ret
                 ELSE pc' = "idle" /\ ret' = TRUE
  /\ whole' = wholeLoop
  /\ UNCHANGED <<config, fields, call, iterations, terminal, twin>>

isGenerationComplete ==
  /\ pc = "idle"
  /\ ret' = generationComplete
  /\ call' = "isGenerationComplete"
  /\ iterations' = 0
  /\ iter' = 0
  /\ twin' = TwinIdle
  /\ whole' = WholeOff
  /\ UNCHANGED <<config, fields, pc, terminal>>

Next ==
  \/ generate
  \/ \E n \in 0 .. MaxIterations : iterate(n)
  \/ pc = "observe" /\ \E rng \in Rngs : singleIteration(rng)
  \/ propagate
  \/ loop
  \/ isGenerationComplete

Spec == Init /\ [][Next]_vars

\* an adjacency table in which tile 0 is never beside tile 0 and everything
\* else is allowed
NoTwoZeros(n) ==
  [d \in Dirs |-> [t \in 0 .. n - 1 |->
      IF t = 0 THEN [k \in 1 .. n - 1 |-> k] ELSE AllTiles(n)]]

\* the constructor with three tiles or more and a wave of up to MaxWave + 1
\* entries (three cells of three tiles): wide enough for an attempt to hold
\* cells of different possibleCount above 1
InitSelect ==
  /\ T \in 3 .. MaxT
  /\ \E g \in (1 .. MaxWave) \X (1 .. MaxWave) :
       g[1] * g[2] * T <= MaxWave + 1 /\ FMX = g[1] /\ FMY = g[2]
  /\ weights \in WeightLists(T)
  /\ propagator \in Propagators(T) \cup {NoTwoZeros(T)}
  /\ onBoundary \in BoundaryPredicates(FMX, FMY)
  /\ initiliazedField = Constructed.initiliazedField
  /\ generationComplete = Constructed.generationComplete
  /\ wave = Constructed.wave
  /\ compatible = Constructed.compatible
  /\ sumsOfOnes = Constructed.sumsOfOnes
  /\ sumsOfWeights = Constructed.sumsOfWeights
  /\ sumsOfWeightLogWeights = Constructed.sumsOfWeightLogWeights
  /\ entropies = Constructed.entropies
  /\ observed = Constructed.observed
  /\ stack = Constructed.stack
  /\ pc = "idle"
  /\ call = "none"
  /\ iterations = 0
  /\ iter = 0
  /\ ret = FALSE
  /\ terminal = "none"
  /\ twin = TwinIdle
  /\ whole = WholeIdle

SpecSelect == InitSelect /\ [][Next]_vars

\* the constructor, on grids without boundary or with column 0 as boundary,
\* beside a third instance to run iterate(a + b) on
InitSplit ==
  /\ T \in 1 .. MaxT
  /\ \E g \in Grids(T) : FMX = g[1] /\ FMY = g[2]
  /\ weights \in WeightLists(T)
  /\ propagator \in Propagators(T)
  /\ onBoundary \in {b \in BoundaryPredicates(FMX, FMY) : ~b[<<-1, -1>>]}
  /\ initiliazedField = Constructed.initiliazedField
  /\ generationComplete = Constructed.generationComplete
  /\ wave = Constructed.wave
  /\ compatible = Constructed.compatible
  /\ sumsOfOnes = Constructed.sumsOfOnes
  /\ sumsOfWeights = Constructed.sumsOfWeights
  /\ sumsOfWeightLogWeights = Constructed.sumsOfWeightLogWeights
  /\ entropies = Constructed.entropies
  /\ observed = Constructed.observed
  /\ stack = Constructed.stack
  /\ pc = "idle"
  /\ call = "none"
  /\ iterations = 0
  /\ iter = 0
  /\ ret = FALSE
  /\ terminal = "none"
  /\ twin = TwinIdle
  /\ whole = [WholeIdle EXCEPT !.compared = TRUE]

SpecSplit == InitSplit /\ [][Next]_vars

\* ---------------------------------------------------------------- claims
NonBoundary(c) == ~onBoundary[<<c % FMX, c \div FMX>>]

\* the cell propagate() reaches from cell c in direction d when it wraps
neighbour(c, d) ==
  wrapX((c % FMX) + offset(d, c \div FMX)[1])
    + wrapY((c \div FMX) + offset(d, c \div FMX)[2]) * FMX

InList(t, p) == \E l \in 1 .. Len(p) : p[l] = t

Reciprocal ==
  \A d \in Dirs : \A a \in Tiles : \A b \in Tiles :
    InList(b, propagator[d][a]) <=> InList(a, propagator[opposite[d + 1]][b])

Returned(op) == pc = "idle" /\ call = op

possible(c) == {t \in Tiles : wave[c][t]}

\* C1: when generate() has returned true for a reciprocal propagator, every
\* non-boundary cell c and direction d whose wrapped direction-d neighbour n is
\* non-boundary have observed[n] in propagator[d][observed[c]].
C1_ReciprocalAdjacency ==
  (Returned("generate") /\ ret /\ Reciprocal) =>
    \A c \in Cells : \A d \in Dirs :
      (NonBoundary(c) /\ NonBoundary(neighbour(c, d))) =>
        InList(observed[neighbour(c, d)], propagator[d][observed[c]])

AllListsEmpty == \A d \in Dirs : \A t \in Tiles : propagator[d][t] = <<>>

MutualNeighbours ==
  \E c1 \in Cells : \E c2 \in Cells :
    /\ c1 # c2
    /\ NonBoundary(c1)
    /\ NonBoundary(c2)
    /\ \E d \in Dirs : neighbour(c1, d) = c2
    /\ \E d \in Dirs : neighbour(c2, d) = c1

\* C2: with every propagator list empty, T >= 2 and two non-boundary cells that
\* are neighbours of each other, generate() returns false.
C2_EmptyPropagatorFails ==
  (Returned("generate") /\ AllListsEmpty /\ T >= 2 /\ MutualNeighbours) => ~ret

\* the state clear() leaves, whatever it started from
Cleared ==
  /\ initiliazedField
  /\ ~generationComplete
  /\ \A c \in Cells : possible(c) = Tiles /\ sumsOfOnes[c] = T
  /\ \A c \in Cells : \A t \in Tiles : \A d \in Dirs :
       compatible[c][t][d] = Len(propagator[opposite[d + 1]][t])

OnePerCell == \A c \in Cells : NonBoundary(c) => Cardinality(possible(c)) = 1
SomeCellEmpty == \E c \in Cells : NonBoundary(c) /\ possible(c) = {}

\* a bound on the work left: every step of a running call lowers it
Variant ==
  4 * Cardinality({ct \in Cells \X Tiles : wave[ct[1]][ct[2]]})
    + 2 * Len(stack) + (IF pc = "propagate" THEN 1 ELSE 0)

\* C3: generate() terminates (a running generate() is at observe, which every
\* rng serves, or in propagate, whose loop either pops or exits; every step that
\* does not return lowers Variant, which is never negative); it
\* clears first, every non-terminal step bans at least one still-possible tile
\* (and revives none), and it returns true exactly when every non-boundary cell
\* is left with one possible tile, false exactly when some non-boundary cell is
\* left with none.
C3_GenerateTerminates ==
  /\ []((call = "generate" /\ pc # "idle") =>
          /\ Variant >= 0
          /\ (pc = "observe" /\ Rngs # {}) \/ pc = "propagate")
  /\ [][(call = "generate" /\ pc # "idle" /\ pc' # "idle") => Variant' < Variant]_vars
  /\ [][(pc = "idle" /\ pc' = "observe" /\ call' = "generate") => Cleared']_vars
  /\ [][(call = "generate" /\ pc = "observe" /\ pc' = "propagate") =>
          /\ \E c \in Cells : \E t \in Tiles : wave[c][t] /\ ~wave'[c][t]
          /\ \A c \in Cells : \A t \in Tiles : wave'[c][t] => wave[c][t]]_vars
  /\ [](Returned("generate") =>
          /\ ret <=> OnePerCell
          /\ ~ret <=> SomeCellEmpty)

\* generate() has returned false after at least two collapse steps
C3_Witness ==
  /\ Returned("generate")
  /\ ~ret
  /\ \E c1 \in Cells : \E c2 \in Cells :
       c1 # c2 /\ NonBoundary(c1) /\ NonBoundary(c2)
       /\ Cardinality(possible(c1)) = 1 /\ possible(c2) = {}

\* C4 as stated: when generate() has returned true, every cell of the grid has
\* exactly one possible tile and observed holds it.
C4_EveryCellCollapsed ==
  (Returned("generate") /\ ret) =>
    \A c \in Cells : Cardinality(possible(c)) = 1 /\ observed[c] \in possible(c)

\* C4 amended: when generate() has returned true, every non-boundary cell of
\* the grid has exactly one possible tile and observed holds it.
C4_NonBoundaryCollapsed ==
  (Returned("generate") /\ ret) =>
    \A c \in Cells :
      NonBoundary(c) => Cardinality(possible(c)) = 1 /\ observed[c] \in possible(c)

\* a success with two tiles or more, a boundary cell and a collapsed cell
C4_Witness ==
  /\ Returned("generate")
  /\ ret
  /\ T >= 2
  /\ \E c \in Cells : ~NonBoundary(c)
  /\ \E c \in Cells : NonBoundary(c) /\ observed[c] = 1 /\ possible(c) = {1}

\* C5: once cleared, between any two steps sumsOfOnes[c] is the number of tiles
\* still possible at c, for every cell c.
C5_CountMatchesWave ==
  initiliazedField => \A c \in Cells : sumsOfOnes[c] = Cardinality(possible(c))

\* in the middle of a propagate() drain, two cells have lost tiles
C5_Witness ==
  /\ pc = "propagate"
  /\ Len(stack) > 0
  /\ \E c1 \in Cells : \E c2 \in Cells :
       c1 # c2 /\ sumsOfOnes[c1] < T /\ sumsOfOnes[c2] < T

IterateCalled == pc = "idle" /\ pc' = "observe" /\ call' = "iterate"
GenerateCalled == pc = "idle" /\ pc' = "observe" /\ call' = "generate"

\* C6: iterate(n), n >= 1, runs at most n observe steps (iter full steps, plus
\* the terminal one if there is one) and stops at the first terminal one; it
\* returns false iff a step observed a contradiction, true on success and when
\* the budget ran out; it clears only if the instance was never cleared.
C6_IterateBudget ==
  /\ []((Returned("iterate") /\ iterations >= 1) =>
          /\ terminal # "none" => iter < iterations
          /\ terminal = "none" => iter = iterations
          /\ ~ret <=> terminal = "contradiction")
  /\ []((call = "iterate" /\ pc # "idle" /\ iterations >= 1) => iter < iterations)
  /\ [][IterateCalled =>
          IF initiliazedField THEN UNCHANGED fields ELSE Cleared']_vars

\* iterate(2) has returned false: its second step observed the contradiction
C6_Witness ==
  /\ Returned("iterate")
  /\ iterations = 2
  /\ iter = 1
  /\ terminal = "contradiction"
  /\ ~ret

\* C7: once the attempt is terminal, every step that is not a clear() leaves
\* wave, compatible, sumsOfOnes and the worklist unchanged, and the observe of a
\* later iterate() returns the same terminal boolean.
C7_TerminalIsStable ==
  [][(terminal # "none" /\ ~GenerateCalled) =>
       /\ UNCHANGED <<wave, compatible, sumsOfOnes, stack>>
       /\ pc = "observe" =>
            (pc' = "idle" /\ terminal' = terminal /\ ret' = (terminal = "success"))]_vars

\* iterate() runs on an attempt that has already ended in a contradiction
C7_Witness ==
  /\ pc = "observe"
  /\ call = "iterate"
  /\ terminal = "contradiction"
  /\ \E c \in Cells : NonBoundary(c) /\ sumsOfOnes[c] > 1

\* C8: generationComplete is true exactly after a terminal success of the
\* current attempt (false before a terminal result and after a contradiction),
\* isGenerationComplete() returns it, and it does not change until a clear().
C8_CompleteTracksTerminal ==
  /\ [](generationComplete <=> terminal = "success")
  /\ [](Returned("isGenerationComplete") => ret = generationComplete)
  /\ [][(terminal # "none" /\ ~GenerateCalled) =>
          generationComplete' = generationComplete]_vars

\* isGenerationComplete() has answered true
C8_Witness == Returned("isGenerationComplete") /\ ret /\ terminal = "success"

\* C9: a cell on the boundary keeps all its tiles, its possibleCount T and its
\* initial compatibility counters, and is never on the worklist.
C9_BoundaryCellsUntouched ==
  initiliazedField =>
    \A c \in Cells :
      ~NonBoundary(c) =>
        /\ possible(c) = Tiles
        /\ sumsOfOnes[c] = T
        /\ \A t \in Tiles : \A d \in Dirs :
             compatible[c][t][d] = Len(propagator[opposite[d + 1]][t])
        /\ \A k \in 1 .. Len(stack) : stack[k][1] # c

\* C10: a generate() on this instance, whatever it did before, and a generate()
\* on a freshly constructed instance fed the same rng values pass through the
\* same wave states, return the same boolean and, on success, leave the same
\* observed assignment.
C10_Deterministic ==
  twin.live =>
    /\ twin.m.wave = wave
    /\ pc # "idle" => twin.result = "null"
    /\ pc = "idle" => twin.result = (IF ret THEN "true" ELSE "false")
    /\ (pc = "idle" /\ ret) => twin.m.observed = observed

\* a generate() in progress on an instance that holds an earlier attempt's
\* observed assignment, beside a twin that has none
C10_Witness ==
  /\ twin.live
  /\ pc = "propagate"
  /\ length(observed) > 0
  /\ twin.m.observed = <<>>
  /\ \E c \in Cells : sumsOfOnes[c] < T

\* the per-cell sums and entropies as clear() leaves them
SumsReset ==
  \A c \in Cells :
    /\ sumsOfWeights[c] = sumOfWeights
    /\ sumsOfWeightLogWeights[c] = sumOfWeightLogWeights
    /\ entropies[c] = startingEntropy

\* a step in which clear() runs: every generate(), and the iterate() of an
\* instance that was never cleared
ClearRuns == GenerateCalled \/ (IterateCalled /\ ~initiliazedField)

\* C12: immediately after clear() (weights.length = T), for every cell c, tile t
\* and direction d: wave[c][t] is true, sumsOfOnes[c] = T, compatible[c][t][d]
\* is the length of propagator[opposite[d]][t], sumsOfWeights[c] and
\* sumsOfWeightLogWeights[c] are the global sums, entropies[c] is
\* startingEntropy, and generationComplete is false.
C12_ClearResets ==
  [][(ClearRuns /\ length(weights) = T) =>
       /\ \A c \in Cells : \A t \in Tiles : wave'[c][t] = TRUE
       /\ \A c \in Cells : sumsOfOnes'[c] = T
       /\ \A c \in Cells : \A t \in Tiles : \A d \in Dirs :
            compatible'[c][t][d] = Len(propagator[opposite[d + 1]][t])
       /\ SumsReset'
       /\ generationComplete' = FALSE]_vars

\* generate() has just cleared an instance that holds an earlier attempt's
\* success: three tiles of unequal weights, observed still assigned
C12_Witness ==
  /\ call = "generate"
  /\ pc = "observe"
  /\ T = 3
  /\ weights[2] = 3
  /\ length(observed) > 0
  /\ Cleared
  /\ SumsReset

NeverBoundary == \A xy \in DOMAIN onBoundary : ~onBoundary[xy]

\* Scenario A: one tile, compatible with itself in all six directions, of
\* weight 1, on a grid without boundary
ScenarioA ==
  /\ T = 1
  /\ \A d \in Dirs : propagator[d][0] = <<0>>
  /\ weights[0] = 1
  /\ NeverBoundary

\* C13: in Scenario A, on the 2x2 grid and on every other grid, generate()
\* returns true (its first step has an rng to run on and returns) and observed
\* maps every cell to tile 0.
C13_SingleTileSucceeds ==
  /\ []((ScenarioA /\ call = "generate" /\ pc = "observe") => Rngs # {})
  /\ [][(ScenarioA /\ call = "generate" /\ pc = "observe") => pc' = "idle"]_vars
  /\ []((ScenarioA /\ Returned("generate")) =>
          ret /\ \A c \in Cells : observed[c] = 0)

\* generate() has returned on the 2x2 grid of Scenario A
C13_Witness ==
  /\ ScenarioA
  /\ FMX = 2
  /\ FMY = 2
  /\ Returned("generate")
  /\ ret
  /\ observed = [c \in 0 .. 3 |-> 0]

\* C15: on a grid of even height without boundary, for every cell c and
\* direction d, the step from c in direction d followed by the step in
\* direction opposite[d] returns to c.
C15_DirectionsReciprocal ==
  (NeverBoundary /\ FMY % 2 = 0) =>
    \A c \in Cells : \A d \in Dirs :
      neighbour(neighbour(c, d), opposite[d + 1]) = c

\* the tiles still possible at the neighbour of c in direction opposite[d] that
\* propagator[opposite[d]] lists for t
supporters(c, t, d) ==
  {t1 \in possible(neighbour(c, opposite[d + 1])) :
     InList(t1, propagator[opposite[d + 1]][t])}

\* C14: with a reciprocal propagator and no boundary, whenever the worklist is
\* empty, for every cell c, tile t still possible at c and direction d,
\* compatible[c][t][d] is the number of tiles still possible at the neighbour
\* of c in direction opposite[d] that propagator[opposite[d]] lists for t (and
\* so is not negative).
C14_CounterMeaning ==
  (initiliazedField /\ stackSize = 0 /\ Reciprocal /\ NeverBoundary) =>
    \A c \in Cells : \A t \in possible(c) : \A d \in Dirs :
      /\ compatible[c][t][d] = Cardinality(supporters(c, t, d))
      /\ compatible[c][t][d] >= 0

\* the (cell, tile) pairs a step turns from possible to impossible
newlyBanned == {ct \in Cells \X Tiles : wave[ct[1]][ct[2]] /\ ~wave'[ct[1]][ct[2]]}

\* the entries a step leaves on the worklist above the first n it found there
pushedAbove(n) == [k \in 1 .. (Len(stack') - n) |-> stack'[n + k]]

\* every ban() of the step hit a pair that was possible, and hit it once: the
\* entries pushed above the first n are as many as the pairs that became
\* impossible, and are those pairs
BansOnlyPossible(n) ==
  /\ Len(stack') >= n
  /\ Len(pushedAbove(n)) = Cardinality(newlyBanned)
  /\ {pushedAbove(n)[k] : k \in 1 .. Len(pushedAbove(n))} = newlyBanned

\* C16: within one attempt no (cell, tile) pair is banned twice: every ban(),
\* from observe or from propagate, hits a pair that is possible, no pair
\* becomes possible again before the next clear(), and so the bans of an
\* attempt and stackSize never exceed cells * T.
C16_NoDoubleBan ==
  /\ [][(pc = "observe" /\ pc' = "propagate") => BansOnlyPossible(Len(stack))]_vars
  /\ [][(pc = "propagate" /\ stackSize > 0) => BansOnlyPossible(Len(stack) - 1)]_vars
  /\ [][(initiliazedField /\ ~ClearRuns) =>
          \A c \in Cells : \A t \in Tiles : wave'[c][t] => wave[c][t]]_vars
  /\ [](initiliazedField =>
          /\ stackSize <= FMXxFMY * T
          /\ stackSize + Cardinality({ct \in Cells \X Tiles : wave[ct[1]][ct[2]]})
               <= FMXxFMY * T)

\* in a propagate() drain, bans made by propagate() have emptied a cell and two
\* entries or more wait on the worklist
C16_Witness ==
  /\ pc = "propagate"
  /\ T >= 2
  /\ stackSize >= 2
  /\ \E c \in Cells : possible(c) = {}
  /\ \E c \in Cells : Cardinality(possible(c)) = 1

\* the worklist below its top entry
belowTop(s) == SubSeq(s, 1, Len(s) - 1)

\* C17: every propagate() drain terminates (each pop lowers Variant, which is
\* never negative) and ends with the worklist empty; the entry a pop takes is
\* the newest one (the older entries stay below whatever the pop pushes); and
\* the worklist is empty at the start of every observe and whenever iterate()
\* or generate() has returned.
C17_DrainEndsEmpty ==
  /\ [](pc = "propagate" => Variant >= 0)
  /\ [][(pc = "propagate" /\ pc' = "propagate") => Variant' < Variant]_vars
  /\ [][(pc = "propagate" /\ pc' # "propagate") => stackSize = 0 /\ Len(stack') = 0]_vars
  /\ [][(pc = "propagate" /\ stackSize > 0) =>
          /\ Len(stack') >= Len(stack) - 1
          /\ SubSeq(stack', 1, Len(stack) - 1) = belowTop(stack)]_vars
  /\ []((pc = "observe" \/ pc = "idle") => stackSize = 0)

\* in a propagate() drain of iterate(), an entry pushed by propagate() lies
\* above an entry pushed by observe()
C17_Witness ==
  /\ pc = "propagate"
  /\ call = "iterate"
  /\ stackSize >= 2
  /\ stack[1][1] # stack[stackSize][1]

\* some non-boundary cell has possibleCount 0
EmptyCell == \E c \in Cells : NonBoundary(c) /\ sumsOfOnes[c] = 0

\* C18: a step returns false if and only if, when it starts, some non-boundary
\* cell has possibleCount 0; such a step bans nothing and collapses no cell;
\* and a cell emptied during a propagate() drain stays empty until a clear(),
\* so the next step reports it.
C18_ContradictionReported ==
  /\ [][pc = "observe" =>
          ((pc' = "idle" /\ ~ret' /\ terminal' = "contradiction") <=> EmptyCell)]_vars
  /\ [][(pc = "observe" /\ EmptyCell) =>
          UNCHANGED <<wave, compatible, sumsOfOnes, sumsOfWeights,
                      sumsOfWeightLogWeights, entropies, observed, stack>>]_vars
  /\ [][(initiliazedField /\ EmptyCell /\ ~ClearRuns) => EmptyCell']_vars

\* the second step of an iterate() has reported the contradiction its first
\* step's drain produced, although another cell could still be collapsed
C18_Witness ==
  /\ Returned("iterate")
  /\ iter >= 1
  /\ terminal = "contradiction"
  /\ ~ret
  /\ EmptyCell
  /\ \E c \in Cells : NonBoundary(c) /\ sumsOfOnes[c] > 1

\* observe() has collapsed cell c to tile r: r was possible and of positive
\* weight, it alone is left, the other tiles that were possible at c are the
\* entries pushed, once each, and no other cell is touched
CollapsedTo(c, r) ==
  /\ r \in possible(c)
  /\ weights[r] > 0
  /\ \A t \in Tiles : wave'[c][t] <=> t = r
  /\ Len(stack') = Len(stack) + Cardinality(possible(c) \ {r})
  /\ SubSeq(stack', 1, Len(stack)) = stack
  /\ {pushedAbove(Len(stack))[k] : k \in 1 .. Len(pushedAbove(Len(stack)))}
       = {<<c, t>> : t \in possible(c) \ {r}}
  /\ \A c2 \in Cells \ {c} :
       /\ wave'[c2] = wave[c2]
       /\ compatible'[c2] = compatible[c2]
       /\ sumsOfOnes'[c2] = sumsOfOnes[c2]
       /\ sumsOfWeights'[c2] = sumsOfWeights[c2]
       /\ sumsOfWeightLogWeights'[c2] = sumsOfWeightLogWeights[c2]
       /\ entropies'[c2] = entropies[c2]

\* C19: when observe() returns null it has chosen one non-boundary cell that
\* had possibleCount > 1; after it and before propagation that cell has
\* exactly one possible tile, which was possible before and had positive
\* weight; exactly the other previously possible tiles of the cell were banned
\* and pushed on the worklist; the wave rows and counters of every other cell
\* are unchanged.
C19_CollapseFrame ==
  [][(pc = "observe" /\ pc' = "propagate") =>
       \E c \in Cells :
         /\ NonBoundary(c)
         /\ sumsOfOnes[c] > 1
         /\ \E r \in Tiles : CollapsedTo(c, r)]_vars

\* just after an observe() that kept the heaviest of three tiles at one cell
\* of several: its two bans wait on the worklist, no other cell has lost a tile
C19_Witness ==
  /\ pc = "propagate"
  /\ T = 3
  /\ FMXxFMY >= 2
  /\ weights[2] = 3
  /\ stackSize = 2
  /\ stack[1][1] = stack[2][1]
  /\ possible(stack[1][1]) = {2}
  /\ \A c \in Cells \ {stack[1][1]} : possible(c) = Tiles

EqualWeights == \A t1 \in Tiles : \A t2 \in Tiles : weights[t1] = weights[t2]

\* C20: with all tile weights equal, a cell of fewer possible tiles has an
\* entropy lower by more than any noise (one unit of 1e-6), and the cell a
\* non-terminal observe() collapses has the smallest possibleCount among the
\* non-boundary cells with possibleCount > 1, whatever rng returns.
C20_MinEntropySelected ==
  /\ []((EqualWeights /\ initiliazedField) =>
          \A c1 \in Cells : \A c2 \in Cells :
            (0 < sumsOfOnes[c1] /\ sumsOfOnes[c1] < sumsOfOnes[c2]) =>
              entropies[c1] + 1 <= entropies[c2])
  /\ [][(EqualWeights /\ pc = "observe" /\ pc' = "propagate") =>
          \E c \in Cells :
            /\ NonBoundary(c)
            /\ sumsOfOnes[c] > 1
            /\ sumsOfOnes'[c] = 1
            /\ \A c2 \in Cells \ {c} : sumsOfOnes'[c2] = sumsOfOnes[c2]
            /\ \A c2 \in Cells :
                 (NonBoundary(c2) /\ sumsOfOnes[c2] > 1) =>
                   sumsOfOnes[c] <= sumsOfOnes[c2]]_vars

\* just after an observe() that had a cell of two tiles and a cell of three to
\* choose from (no two tiles 0 adjacent): the cell of two had lost tile 0 to an
\* earlier drain and its one ban waits on the worklist, the cell of three is
\* intact, a third cell was collapsed before
C20_Witness ==
  /\ pc = "propagate"
  /\ EqualWeights
  /\ T = 3
  /\ propagator = NoTwoZeros(T)
  /\ stackSize = 1
  /\ NonBoundary(stack[1][1])
  /\ stack[1][2] # 0
  /\ ~wave[stack[1][1]][0]
  /\ Cardinality(possible(stack[1][1])) = 1
  /\ \E c2 \in Cells : NonBoundary(c2) /\ sumsOfOnes[c2] = 3
  /\ \E c3 \in Cells \ {stack[1][1]} : NonBoundary(c3) /\ sumsOfOnes[c3] = 1

\* C11: iterate(a) followed by iterate(b) on a fresh instance, a >= 1 and
\* b >= 1, and one call iterate(a + b) on another fresh instance fed the same
\* rng values end in the same wave, compatibility counters, possibleCounts and
\* generationComplete flag, return the same boolean and, on success, leave the
\* same observed assignment, whether the attempt becomes terminal within the
\* first a steps or not.
C11_SplitEqualsWhole ==
  (whole.live /\ whole.calls = 2 /\ pc = "idle") =>
    /\ whole.pc = "idle"
    /\ whole.ret = ret
    /\ whole.m.wave = wave
    /\ whole.m.compatible = compatible
    /\ whole.m.sumsOfOnes = sumsOfOnes
    /\ whole.m.generationComplete = generationComplete
    /\ generationComplete => whole.m.observed = observed

\* iterate(1) and then iterate(1) have returned on a fresh instance, both on
\* their budget: two cells are collapsed and the attempt is still open
C11_Witness ==
  /\ whole.live
  /\ whole.calls = 2
  /\ whole.first = 1
  /\ pc = "idle"
  /\ iterations = 1
  /\ terminal = "none"
  /\ ret
  /\ T >= 2
  /\ Cardinality({c \in Cells : sumsOfOnes[c] = 1}) = 2
  /\ \E c \in Cells : NonBoundary(c) /\ sumsOfOnes[c] > 1

====
